---------------------------- MODULE Spec2Model ----------------------------
(***************************************************************************)
(* A model of CPAC/nuisance/utils.py:                                      *)
(*   - generate_summarize_tissue_mask: the memoised mask-derivation graph  *)
(*     builder working on one shared resource pool (specification Spec);   *)
(*   - find_offending_time_points: the censor vector (SpecCensor);         *)
(*   - create_temporal_variance_mask: the variance mask (SpecVariance);    *)
(*   - summarize_timeseries: the summary regressors (SpecSummary);         *)
(*   - NuisanceRegressor.__repr__: the identity string (SpecRepr).         *)
(* Python strings are sequences of one-character strings, so that          *)
(* joining, prefix tests, substitution and number formatting are computed. *)
(***************************************************************************)
EXTENDS Integers, Sequences, FiniteSets, TLC

VARIABLES
    pool,       \* pipeline_resource_pool: key -> (node, output) or the transforms dict
    wf,         \* nuisance_wf: the set of connections made so far
    reg,        \* nuisance_wf: the names of the builder nodes registered by connect
    attrs,      \* node name -> the inputs set on the node (node.inputs.*)
    ants,       \* the configuration's use_ants flag, passed to every call
    builds,     \* history: key -> the references assigned to pool[key], in order
    call,       \* the last call: its arguments, the pool before it, its outcome
    censor,     \* find_offending_time_points: the last call's arguments and outcome
    variance,   \* create_temporal_variance_mask: the last call's arguments and outcome
    summary,    \* summarize_timeseries: the last call's arguments and outcome
    ident       \* NuisanceRegressor.__repr__: the last two selectors and their strings

vars == <<pool, wf, reg, attrs, ants, builds, call, censor, variance, summary, ident>>

---------------------------------------------------------------------------
(* Strings *)

sFunctional == <<"F","u","n","c","t","i","o","n","a","l">>
sGlobalSignal == <<"G","l","o","b","a","l","S","i","g","n","a","l">>
sTransformations == <<"T","r","a","n","s","f","o","r","m","a","t","i","o","n","s">>
sVentricles == <<"V","e","n","t","r","i","c","l","e","s">>
sCerebrospinalFluidUnmasked == <<"C","e","r","e","b","r","o","s","p","i","n","a","l","F","l","u","i","d","U","n","m","a","s","k","e","d">>
sCerebrospinalFluid == <<"C","e","r","e","b","r","o","s","p","i","n","a","l","F","l","u","i","d">>
sFunctionalVariance == <<"F","u","n","c","t","i","o","n","a","l","V","a","r","i","a","n","c","e">>
sWhiteMatter == <<"W","h","i","t","e","M","a","t","t","e","r">>
sAnatomicalPrefix == <<"A","n","a","t","o","m","i","c","a","l","_">>
sMm == <<"m","m">>
sEroded == <<"E","r","o","d","e","d">>
sCreateVarNode == <<"c","r","e","a","t","e","_","t","e","m","p","o","r","a","l","_","v","a","r","i","a","n","c","e","_","m","a","s","k","_">>
sMaskToEpiNode == <<"m","a","s","k","_","t","o","_","e","p","i","_","f","l","i","r","t","_","a","p","p","l","y","x","f","m","_">>
sErodeNode == <<"e","r","o","d","e","_","m","a","s","k","_","n","o","d","e","_">>
sMaskCfsNode == <<"m","a","s","k","_","c","f","s","_","w","i","t","h","_","l","a","t","_","v","e","n">>
sCollectNode == <<"h","o","_","m","n","i","_","t","o","_","2","m","m","_","a","n","t","s","_","c","o","l","l","e","c","t","_","l","i","n","e","a","r","_","t","r","a","n","s","f","o","r","m","s">>
sLatVenAnts == <<"l","a","t","_","v","e","n","_","m","n","i","_","t","o","_","a","n","a","t","_","a","n","t","s">>
sLatVenFlirt == <<"l","a","t","_","v","e","n","_","m","n","i","_","t","o","_","a","n","a","t","_","f","l","i","r","t">>
sInputspec == <<"i","n","p","u","t","s","p","e","c">>

\* The characters matched by the regular expression \w.
WordChars == {"a","b","c","d","e","f","g","h","i","j","k","l","m","n","o","p","q","r","s","t","u","v","w","x","y","z","A","B","C","D","E","F","G","H","I","J","K","L","M","N","O","P","Q","R","S","T","U","V","W","X","Y","Z","0","1","2","3","4","5","6","7","8","9","_"}

Digit(d) == <<"0","1","2","3","4","5","6","7","8","9">>[d + 1]

\* str(n) / "%d" % n for a natural number n.
RECURSIVE NatStr(_)
NatStr(n) == IF n < 10 THEN <<Digit(n)>> ELSE NatStr(n \div 10) \o <<Digit(n % 10)>>

\* sep.join(parts)
RECURSIVE Join(_, _)
Join(sep, parts) ==
    IF parts = <<>> THEN <<>>
    ELSE IF Len(parts) = 1 THEN parts[1]
    ELSE parts[1] \o sep \o Join(sep, Tail(parts))

\* s.startswith(p)
StartsWith(s, p) == Len(s) >= Len(p) /\ SubSeq(s, 1, Len(p)) = p

\* re.sub(r"[^\w]", "_", s)
SubNonWord(s) == [i \in 1..Len(s) |-> IF s[i] \in WordChars THEN s[i] ELSE "_"]

\* The elements of a sequence.
Range(s) == {s[i] : i \in 1..Len(s)}

---------------------------------------------------------------------------
(* generate_summarize_tissue_mask *)

\* An artifact reference: the tuple (node, output name) the pool holds.
Ref(node, out) == [node |-> node, out |-> <<out>>]

\* The base resources a caller puts in the pool before the first call, each a
\* handle on an output of the caller's input node.
BaseNames == {sFunctional, sGlobalSignal, sVentricles, sCerebrospinalFluidUnmasked,
              sAnatomicalPrefix \o <<"2">> \o sMm, sWhiteMatter}
BaseRef(k) == [node |-> sInputspec, out |-> k]

\* pool['Transformations'] for the two transform-application strategies.
AntsXfms == {"anat_to_mni_initial_xfm", "anat_to_mni_rigid_xfm", "anat_to_mni_affine_xfm"}
FlirtXfms == {"mni_to_anat_linear_xfm"}
XfmDict(names) == [x \in names |-> Ref(sInputspec, x)]

\* steps = [key for key in ['tissue', 'resolution', 'erosion'] if key in regressor_descriptor]
Steps(desc) ==
    LET InDescriptor(key) == key \in DOMAIN desc
    IN  SelectSeq(<<"tissue", "resolution", "erosion">>, InDescriptor)

\* "_".join(regressor_descriptor[s] for s in steps[:n])
MaskKey(desc, n) ==
    LET steps == Steps(desc)
    IN  Join(<<"_">>, [i \in 1..n |-> desc[steps[i]]])

FullMaskKey(desc) == MaskKey(desc, Len(Steps(desc)))

PutAlone(m, k, v) == [x \in {k} |-> v]

\* m with m[k] = v.
Put(m, k, v) == [x \in DOMAIN m \cup {k} |-> IF x = k THEN v ELSE m[x]]

\* The frame of one call: the pool, the workflow and the node inputs as the call
\* has changed them so far, the nodes constructed and not yet part of the
\* workflow (with the inputs set on them), and the exception raised, if any.
Frame(p, w, r, a, b) ==
    [pool |-> p, wf |-> w, reg |-> r, attrs |-> a, builds |-> b,
     fresh |-> <<>>, err |-> "none", errKey |-> <<>>]

Raise(st, kind) == [st EXCEPT !.err = kind]

\* nuisance_wf.connect(src_node, src_out, dst, field): the nodes the workflow does
\* not hold yet are added to it, and connect refuses (IOError) a new node whose
\* name a node of the workflow already has.
Connect(st, src, srcIsNew, dst, field) ==
    LET new == ({dst} \cup (IF srcIsNew THEN {src.node} ELSE {})) \cap DOMAIN st.fresh
    IN  IF new \cap st.reg # {} THEN Raise(st, "IOError")
        ELSE [st EXCEPT !.reg = @ \cup new,
                        !.attrs = [n \in DOMAIN @ \cup new |->
                                      IF n \in new THEN st.fresh[n] ELSE @[n]],
                        !.fresh = [n \in DOMAIN @ \ new |-> @[n]],
                        !.wf = @ \cup {[src |-> src, dst |-> dst, field |-> field]}]

\* One statement of a builder.
Exec(st, op) ==
    CASE op.op = "node" ->
            \* pe.Node(..., name=...)
            [st EXCEPT !.fresh = Put(@, op.name, <<>>)]
      [] op.op = "connectPool" ->
            \* nuisance_wf.connect(*(pipeline_resource_pool[key] + (dst, field)))
            IF op.key \notin DOMAIN st.pool THEN Raise(st, "KeyError")
            ELSE Connect(st, st.pool[op.key], FALSE, op.dst, op.field)
      [] op.op = "getTransforms" ->
            \* transforms = pipeline_resource_pool['Transformations']
            IF sTransformations \notin DOMAIN st.pool THEN Raise(st, "KeyError") ELSE st
      [] op.op = "connectXfm" ->
            \* nuisance_wf.connect(*(transforms[xfm] + (dst, field)))
            IF op.xfm \notin DOMAIN st.pool[sTransformations] THEN Raise(st, "KeyError")
            ELSE Connect(st, st.pool[sTransformations][op.xfm], FALSE, op.dst, op.field)
      [] op.op = "connectNode" ->
            \* nuisance_wf.connect(src, out, dst, field)
            Connect(st, Ref(op.src, op.out), TRUE, op.dst, op.field)
      [] op.op = "set" ->
            \* node.inputs.<attr> = value
            IF op.node \in DOMAIN st.fresh
            THEN [st EXCEPT !.fresh[op.node] = Put(@, op.attr, op.value)]
            ELSE [st EXCEPT !.attrs[op.node] = Put(@, op.attr, op.value)]
      [] op.op = "raise" ->
            Raise(st, op.kind)
      [] op.op = "insert" ->
            \* pipeline_resource_pool[mask_key] = (node, out)
            LET ref == Ref(op.node, op.out)
                had == IF op.key \in DOMAIN st.builds THEN st.builds[op.key] ELSE <<>>
            IN  [st EXCEPT !.pool = Put(@, op.key, ref),
                           !.builds = Put(@, op.key, Append(had, ref))]

\* The statements of a builder in order, up to the first that raises.
RECURSIVE RunOps(_, _)
RunOps(st, ops) ==
    IF ops = <<>> \/ st.err # "none" THEN st
    ELSE RunOps(Exec(st, Head(ops)), Tail(ops))

\* Statements.
MkNode(name) == [op |-> "node", name |-> name]
ConnectPool(key, dst, field) == [op |-> "connectPool", key |-> key, dst |-> dst, field |-> field]
ConnectXfm(xfm, dst, field) == [op |-> "connectXfm", xfm |-> xfm, dst |-> dst, field |-> field]
ConnectNode(src, out, dst, field) ==
    [op |-> "connectNode", src |-> src, out |-> out, dst |-> dst, field |-> field]
SetInput(node, attr, value) == [op |-> "set", node |-> node, attr |-> attr, value |-> value]
\* node.inputs.<attr> = regressor_selector[<attr>]
SetFromSelector(node, attr, sel) ==
    IF attr \in DOMAIN sel THEN SetInput(node, attr, sel[attr])
    ELSE [op |-> "raise", kind |-> "KeyError"]
Insert(key, node, out) == [op |-> "insert", key |-> key, node |-> node, out |-> out]

\* A selector's extraction_resolution: the string "Functional" or a number.
StrVal(s) == [kind |-> "str", s |-> s, n |-> 0]
NumVal(n) == [kind |-> "num", s |-> <<>>, n |-> n]
\* '{}'.format(v)
Format(v) == IF v.kind = "str" THEN v.s ELSE NatStr(v.n)

VarianceOpsInsertFirst(mask_key, node_mask_key, sel) ==
    LET node == sCreateVarNode \o node_mask_key
    IN  << MkNode(node),
           Insert(mask_key, node, "mask_file_path"),
           ConnectPool(sFunctional, node, "functional_file_path"),
           ConnectPool(sGlobalSignal, node, "mask_file_path"),
           SetFromSelector(node, "threshold", sel),
           SetFromSelector(node, "by_slice", sel) >>

\* The tissue step of a key that starts with 'FunctionalVariance'.
VarianceOps(mask_key, node_mask_key, sel) ==
    LET node == sCreateVarNode \o node_mask_key
    IN  << MkNode(node),
           ConnectPool(sFunctional, node, "functional_file_path"),
           ConnectPool(sGlobalSignal, node, "mask_file_path"),
           SetFromSelector(node, "threshold", sel),
           SetFromSelector(node, "by_slice", sel),
           Insert(mask_key, node, "mask_file_path") >>

\* The tissue step of the key 'CerebrospinalFluid'.
CsfOps(mask_key, use_ants) ==
    << [op |-> "getTransforms"],
       MkNode(sMaskCfsNode),
       SetInput(sMaskCfsNode, "expr", "step(a)*step(b)") >>
    \o (IF use_ants
        THEN << MkNode(sCollectNode),
                ConnectXfm("anat_to_mni_initial_xfm", sCollectNode, "in1"),
                ConnectXfm("anat_to_mni_rigid_xfm", sCollectNode, "in2"),
                ConnectXfm("anat_to_mni_affine_xfm", sCollectNode, "in3"),
                MkNode(sLatVenAnts),
                SetInput(sLatVenAnts, "interpolation", "NearestNeighbor"),
                ConnectNode(sCollectNode, "out", sLatVenAnts, "transforms"),
                ConnectPool(sVentricles, sLatVenAnts, "input_image"),
                ConnectPool(sCerebrospinalFluidUnmasked, sLatVenAnts, "reference_image"),
                ConnectNode(sLatVenAnts, "output_image", sMaskCfsNode, "in_file_b") >>
        ELSE << MkNode(sLatVenFlirt),
                SetInput(sLatVenFlirt, "interp", "nearestneighbour"),
                ConnectXfm("mni_to_anat_linear_xfm", sLatVenFlirt, "in_matrix_file"),
                ConnectPool(sVentricles, sLatVenFlirt, "in_file"),
                ConnectPool(sCerebrospinalFluidUnmasked, sLatVenFlirt, "reference"),
                ConnectNode(sLatVenFlirt, "out_file", sMaskCfsNode, "in_file_b") >>)
    \o << ConnectPool(sCerebrospinalFluidUnmasked, sMaskCfsNode, "in_file_a"),
          Insert(mask_key, sMaskCfsNode, "out_file") >>

\* The tissue step: one of the two builders, or nothing at all for any other key.
TissueOps(mask_key, node_mask_key, sel, use_ants) ==
    IF StartsWith(mask_key, sFunctionalVariance)
    THEN VarianceOps(mask_key, node_mask_key, sel)
    ELSE IF mask_key = sCerebrospinalFluid
    THEN CsfOps(mask_key, use_ants)
    ELSE <<>>

\* The resolution step.
ResolutionOps(mask_key, node_mask_key, prev_mask_key, sel) ==
    LET node == sMaskToEpiNode \o node_mask_key
    IN  << MkNode(node) >>
        \o (IF "extraction_resolution" \notin DOMAIN sel
            THEN << [op |-> "raise", kind |-> "KeyError"] >>
            ELSE IF sel["extraction_resolution"] = StrVal(sFunctional)
            THEN << ConnectPool(sFunctional, node, "reference") >>
            ELSE LET resolution == sel["extraction_resolution"]
                 IN  << SetInput(node, "apply_isoxfm", resolution),
                        ConnectPool(sAnatomicalPrefix \o Format(resolution) \o sMm,
                                    node, "reference") >>)
        \o << ConnectPool(prev_mask_key, node, "in_file"),
              Insert(mask_key, node, "out_file") >>

ErosionOpsOfFunctional(mask_key, node_mask_key, prev_mask_key) ==
    LET node == sErodeNode \o node_mask_key
    IN  << MkNode(node),
           SetInput(node, "expr", "a*(1-amongst(0,b,c,d,e,f,g))"),
           ConnectPool(sFunctional, node, "in_file_a"),
           Insert(mask_key, node, "out_file") >>

\* The erosion step.
ErosionOps(mask_key, node_mask_key, prev_mask_key) ==
    LET node == sErodeNode \o node_mask_key
    IN  << MkNode(node),
           SetInput(node, "expr", "a*(1-amongst(0,b,c,d,e,f,g))"),
           ConnectPool(prev_mask_key, node, "in_file_a"),
           Insert(mask_key, node, "out_file") >>

InPoolNever(p, mask_key) == FALSE

\* if mask_key in pipeline_resource_pool: continue
InPool(p, mask_key) == mask_key \in DOMAIN p

\* One round of the loop over the steps.
StepBody(st, desc, sel, use_ants, step_i) ==
    LET step == Steps(desc)[step_i]
        mask_key == MaskKey(desc, step_i)
        node_mask_key == SubNonWord(mask_key)
        prev_mask_key == MaskKey(desc, step_i - 1)
        ops == CASE step = "tissue" -> TissueOps(mask_key, node_mask_key, sel, use_ants)
                 [] step = "resolution" ->
                        ResolutionOps(mask_key, node_mask_key, prev_mask_key, sel)
                 [] step = "erosion" -> ErosionOps(mask_key, node_mask_key, prev_mask_key)
        done == RunOps([st EXCEPT !.fresh = <<>>], ops)
    IN  IF InPool(st.pool, mask_key) THEN st
        ELSE IF done.err # "none" THEN [done EXCEPT !.errKey = mask_key]
        ELSE done

\* for step_i, step in enumerate(steps): ...
RECURSIVE RunSteps(_, _, _, _, _)
RunSteps(st, desc, sel, use_ants, step_i) ==
    IF step_i > Len(Steps(desc)) \/ st.err # "none" THEN st
    ELSE RunSteps(StepBody(st, desc, sel, use_ants, step_i), desc, sel, use_ants, step_i + 1)

\* The arguments the calls are made with.
TissueFragments == {sFunctionalVariance \o <<"-","1">>, sCerebrospinalFluid, sWhiteMatter}
ResolutionFragments == {<<"2">> \o sMm}
ErosionFragments == {sEroded}
Fragments(step) ==
    CASE step = "tissue" -> TissueFragments
      [] step = "resolution" -> ResolutionFragments
      [] step = "erosion" -> ErosionFragments
StepSets == {{}, {"tissue"}, {"resolution"}, {"tissue", "resolution"}, {"tissue", "erosion"},
             {"tissue", "resolution", "erosion"}}
Descriptors ==
    UNION {{d \in [S -> UNION {Fragments(s) : s \in S}] : \A s \in S : d[s] \in Fragments(s)} :
             S \in StepSets}
SelectorA == [threshold |-> 1, by_slice |-> FALSE, extraction_resolution |-> NumVal(2)]
SelectorB == [threshold |-> 2, by_slice |-> TRUE, extraction_resolution |-> StrVal(sFunctional)]
SelectorC == [threshold |-> 1]
Selectors == {SelectorA, SelectorB, SelectorC}

\* The number of calls made on one pool.
MaxCalls == 2

\* The pools the first call can be given: every base resource, or all but one.
FullPool(xfms) ==
    [k \in BaseNames \cup {sTransformations} |->
        IF k = sTransformations THEN XfmDict(xfms) ELSE BaseRef(k)]
Without(p, k) == [x \in DOMAIN p \ {k} |-> p[x]]
\* The pool and the use_ants flag of a run: every base resource with the transforms
\* of the strategy of the flag or of the other strategy, or all but one resource.
Configurations ==
    {<<FullPool(AntsXfms), TRUE>>, <<FullPool(FlirtXfms), FALSE>>, <<FullPool(FlirtXfms), TRUE>>}
    \cup {<<Without(FullPool(AntsXfms), k), TRUE>> : k \in BaseNames \cup {sTransformations}}

NoCall == [n |-> 0, desc |-> <<>>, sel |-> <<>>, prePool |-> <<>>, err |-> "nocall",
           errKey |-> <<>>, key |-> <<>>]

InitPool ==
    /\ \E c \in Configurations : pool = c[1] /\ ants = c[2]
    /\ wf = {}
    /\ reg = {}
    /\ attrs = <<>>
    /\ builds = <<>>
    /\ call = NoCall

\* generate_summarize_tissue_mask(nuisance_wf, pipeline_resource_pool,
\*                                regressor_descriptor, regressor_selector, use_ants)
Call(desc, sel, use_ants) ==
    LET st == RunSteps(Frame(pool, wf, reg, attrs, builds), desc, sel, use_ants, 1)
    IN  /\ pool' = st.pool
        /\ wf' = st.wf
        /\ reg' = st.reg
        /\ attrs' = st.attrs
        /\ builds' = st.builds
        /\ call' = [n |-> call.n + 1, desc |-> desc, sel |-> sel, prePool |-> pool,
                    err |-> st.err, errKey |-> st.errKey,
                    key |-> IF st.err = "none" THEN FullMaskKey(desc) ELSE <<>>]

NextPool ==
    /\ call.n < MaxCalls
    /\ \E desc \in Descriptors, sel \in Selectors : Call(desc, sel, ants)
    /\ UNCHANGED <<ants, censor, variance, summary, ident>>

\* Tissue fragments a caller can also pass: the function takes any string. One
\* holds the separator of the join, one is the name of a pool resource, one
\* differs from 'FunctionalVariance-1' in a non-word character only.
OtherTissues ==
    {sCerebrospinalFluid \o <<"_", "2">> \o sMm, sVentricles, sFunctionalVariance \o <<".", "1">>}
KeyDescriptors == Descriptors \cup {[s \in {"tissue"} |-> t] : t \in OtherTissues}

InitKeyPool ==
    /\ pool \in {FullPool(AntsXfms), Without(FullPool(AntsXfms), sVentricles)}
    /\ ants = TRUE
    /\ wf = {}
    /\ reg = {}
    /\ attrs = <<>>
    /\ builds = <<>>
    /\ call = NoCall

\* The calls of one run, the descriptors drawn from KeyDescriptors.
NextKeys ==
    /\ call.n < MaxCalls
    /\ \E desc \in KeyDescriptors, sel \in Selectors : Call(desc, sel, ants)
    /\ UNCHANGED <<ants, censor, variance, summary, ident>>

\* A kernel that has not been called.
Idle == <<>>

\* No pool, no workflow: the specifications of the numeric kernels and of the
\* identity string leave them alone.
NoPool ==
    /\ pool = <<>> /\ wf = {} /\ reg = {} /\ attrs = <<>> /\ ants = TRUE /\ builds = <<>>
    /\ call = NoCall

---------------------------------------------------------------------------
(* find_offending_time_points *)

\* The sum of a sequence of integers.
RECURSIVE Sum(_)
Sum(s) == IF s = <<>> THEN 0 ELSE Head(s) + Sum(Tail(s))

Squares(s) == [i \in 1..Len(s) |-> s[i] * s[i]]

\* A threshold argument: None, a number, "<k> SD", or a string that is neither.
NoThreshold == [kind |-> "none", v |-> 0]
NumThreshold(v) == [kind |-> "num", v |-> v]
SdThreshold(k) == [kind |-> "sd", v |-> k]
BadThreshold == [kind |-> "bad", v |-> 0]

\* not threshold: None is falsy, and so is the number 0.
Falsy(thr) == thr.kind = "none" \/ (thr.kind = "num" /\ thr.v = 0)

\* series[i] > threshold, where "<k> SD" stands for mean + k * std of the series.
\* With n the length, S the sum and Q the sum of squares of the series,
\* x > S/n + k * sqrt(Q/n - (S/n)^2) is n*x - S > k * sqrt(n*Q - S^2).
Exceeds(series, i, thr) ==
    IF thr.kind = "num" THEN series[i] > thr.v
    ELSE LET n == Len(series)
             S == Sum(series)
             Q == Sum(Squares(series))
             d == n * series[i] - S
         IN  d > 0 /\ d * d > thr.v * thr.v * (n * Q - S * S)

\* np.where(series > threshold)[0].tolist(): the indices, from 0.
Where(series, thr) == {i \in 0..(Len(series) - 1) : Exceeds(series, i + 1, thr)}

NotPrepended(raw) == raw

\* dvars = np.array([0.0] + np.loadtxt(dvars_file_path).tolist())
Prepended(raw) == <<0>> \o raw

\* if not offending_time_points: take the DVARS indices; else: intersect.
Combine(fdOff, dvOff) == IF fdOff = {} THEN dvOff ELSE fdOff \cap dvOff

WindowExclusive(censor_i, pre, post) == (censor_i - pre)..(censor_i + post - 1)

\* range(censor - number_of_previous_trs_to_remove,
\*       censor + number_of_subsequent_trs_to_remove + 1)
Window(censor_i, pre, post) == (censor_i - pre)..(censor_i + post)

\* extended_censors, filtered to 0 <= censor < time_course_len
ExtendedCensors(offending, pre, post, len) ==
    {c \in UNION {Window(o, pre, post) : o \in offending} : 0 <= c /\ c < len}

\* censor_vector = np.ones((time_course_len, 1)); censor_vector[extended_censors] = 0
CensorVector(extended, len) == [j \in 1..len |-> IF (j - 1) \in extended THEN 0 ELSE 1]

\* A series argument: no path, a path that is no file, or a file with its samples.
NoPath == [path |-> FALSE, isfile |-> FALSE, data |-> <<>>]
NoFile == [path |-> TRUE, isfile |-> FALSE, data |-> <<>>]
File(data) == [path |-> TRUE, isfile |-> TRUE, data |-> data]

\* The whole function: the error raised, or the vector written to censors.tsv.
FindOffendingTimePoints(fd, dv, fd_threshold, dvars_threshold, pre, post) ==
    LET fail == [err |-> "ValueError", written |-> FALSE, len |-> 0,
                 fd_offending |-> {}, dvars_offending |-> {},
                 offending |-> {}, vector |-> <<>>]
        fdBad == fd.path /\ (~fd.isfile \/ Falsy(fd_threshold) \/ fd_threshold.kind = "bad")
        dvBad == dv.path /\ (~dv.isfile \/ Falsy(dvars_threshold)
                                \/ dvars_threshold.kind = "bad")
        fdOff == IF fd.path THEN Where(fd.data, fd_threshold) ELSE {}
        dvars == Prepended(dv.data)
        dvOff == IF dv.path THEN Where(dvars, dvars_threshold) ELSE {}
        offending == IF dv.path THEN Combine(fdOff, dvOff) ELSE fdOff
        len == IF dv.path THEN Len(dvars) ELSE IF fd.path THEN Len(fd.data) ELSE 0
    IN  IF fdBad \/ dvBad THEN fail
        ELSE [err |-> "none", written |-> TRUE, len |-> len,
              fd_offending |-> fdOff, dvars_offending |-> dvOff, offending |-> offending,
              vector |-> CensorVector(ExtendedCensors(offending, pre, post, len), len)]

\* The longest FD series, the largest window.
MaxLen == 5
MaxWin == 1

\* Samples are 0 or 5; a series file holds at least two samples.
SeriesOfLen(n) == [1..n -> {0, 5}]
FdSeries == UNION {SeriesOfLen(n) : n \in 2..MaxLen}
DvarsSeries == UNION {SeriesOfLen(n) : n \in 2..(MaxLen - 1)}
Thresholds == {NoThreshold, NumThreshold(0), NumThreshold(1), SdThreshold(1), BadThreshold}

\* A call about to be made with its arguments, no outcome yet.
CensorCall(fd, dv, fd_threshold, dvars_threshold, pre, post) ==
    [done |-> FALSE, fd |-> fd, dv |-> dv, fd_threshold |-> fd_threshold,
     dvars_threshold |-> dvars_threshold, pre |-> pre, post |-> post,
     out |-> [err |-> "none", written |-> FALSE, len |-> 0, fd_offending |-> {},
              dvars_offending |-> {}, offending |-> {}, vector |-> <<>>]]

NoCensor == CensorCall(NoPath, NoPath, NoThreshold, NoThreshold, 0, 0)

InitCensor ==
    /\ NoPool /\ variance = Idle /\ summary = Idle /\ ident = Idle
    /\ \E fd \in {NoPath, NoFile} \cup {File(s) : s \in FdSeries},
          dv \in {NoPath, NoFile} \cup {File(s) : s \in DvarsSeries},
          fd_threshold \in Thresholds, dvars_threshold \in Thresholds,
          pre \in 0..MaxWin, post \in 0..MaxWin :
          censor = CensorCall(fd, dv, fd_threshold, dvars_threshold, pre, post)

\* find_offending_time_points(fd_file_path, dvars_file_path, fd_threshold,
\*     dvars_threshold, number_of_previous_trs_to_remove,
\*     number_of_subsequent_trs_to_remove)
Censor ==
    /\ ~censor.done
    /\ censor' = [censor EXCEPT
                    !.done = TRUE,
                    !.out = FindOffendingTimePoints(censor.fd, censor.dv,
                                censor.fd_threshold, censor.dvars_threshold,
                                censor.pre, censor.post)]

NextCensor ==
    /\ Censor
    /\ UNCHANGED <<pool, wf, reg, attrs, ants, builds, call, variance, summary, ident>>

---------------------------------------------------------------------------
(* create_temporal_variance_mask *)

\* A threshold argument: None, a number, "<k>SD", "<p>PCT", or another string.
PctThreshold(p) == [kind |-> "pct", v |-> p]

\* threshold_method: "SD" or "PCT" when the string matches, "VAR" otherwise.
ThresholdMethod(thr) ==
    CASE thr.kind = "sd" -> "SD"
      [] thr.kind = "pct" -> "PCT"
      [] OTHER -> "VAR"

\* data.var(axis=3) of one voxel: the population variance of its time course.
\* (The time courses of the model have an integer variance.)
Var(series) ==
    LET n == Len(series)
        S == Sum(series)
        Q == Sum(Squares(series))
    IN  (n * Q - S * S) \div (n * n)

\* The number of values of a bag of numbers (voxel -> value) below x, and up to x.
CountBelow(vals, x) == Cardinality({v \in DOMAIN vals : vals[v] < x})
CountUpTo(vals, x) == Cardinality({v \in DOMAIN vals : vals[v] <= x})

\* sorted(vals)[k], k from 0.
Kth(vals, k) ==
    CHOOSE x \in {vals[v] : v \in DOMAIN vals} : CountBelow(vals, x) <= k /\ k < CountUpTo(vals, x)

\* 100 * np.percentile(vals, q): numpy interpolates linearly between the two
\* values around position (n - 1) * q / 100 of the sorted values.
Percentile100(vals, q) ==
    LET n == Cardinality(DOMAIN vals)
        lo == ((n - 1) * q) \div 100
        r == ((n - 1) * q) % 100
        hi == IF lo + 1 < n THEN lo + 1 ELSE lo
    IN  100 * Kth(vals, lo) + r * (Kth(vals, hi) - Kth(vals, lo))

AtOrAbovePercentile(x, vals, q) == 100 * x >= Percentile100(vals, q)

\* x > np.percentile(vals, q)
AbovePercentile(x, vals, q) == 100 * x > Percentile100(vals, q)

\* The values of a bag of numbers (voxel -> value), in some order.
RECURSIVE Values(_)
Values(vals) ==
    IF DOMAIN vals = {} THEN <<>>
    ELSE LET v == CHOOSE v \in DOMAIN vals : TRUE
         IN  <<vals[v]>> \o Values([w \in DOMAIN vals \ {v} |-> vals[w]])

\* x > vals.mean() + k * vals.std(), as in Exceeds.
AboveMeanSd(x, vals, k) ==
    LET n == Cardinality(DOMAIN vals)
        S == Sum(Values(vals))
        Q == Sum(Squares(Values(vals)))
        d == n * x - S
    IN  d > 0 /\ d * d > k * k * (n * Q - S * S)

AboveSliceCount(x, vals, thr) == x > thr.v * Cardinality(DOMAIN vals)

\* functional_data_variance[:, slice_number] > slice_threshold_value for one voxel,
\* vals being the variances of the eligible voxels of the slice.
AboveSliceThreshold(x, vals, thr) ==
    CASE ThresholdMethod(thr) = "PCT" -> AbovePercentile(x, vals, 100 - thr.v)
      [] ThresholdMethod(thr) = "SD" -> AboveMeanSd(x, vals, thr.v)
      [] OTHER -> x > thr.v

ColumnsWhole(voxels, by_slice) == {voxels}

\* The columns of the reshaped variance: the slices along the third axis when
\* by_slice is True, one column holding every voxel otherwise. (by_slice is the
\* text of the Python value: "True", "False", or that of a value that is no bool.)
Columns(voxels, by_slice) ==
    IF by_slice = "True" THEN {{v \in voxels : v[2] = z} : z \in {v[2] : v \in voxels}}
    ELSE {voxels}

\* The loop over the columns: the voxels of the output mask.
VarianceMask(vars3d, mask_data, thr, by_slice) ==
    UNION { LET eligible == column \cap mask_data
                vals == [v \in eligible |-> vars3d[v]]
            IN  IF eligible = {} THEN {}
                ELSE {v \in eligible : AboveSliceThreshold(vars3d[v], vals, thr)} :
            column \in Columns(DOMAIN vars3d, by_slice) }

\* The whole function: the error raised, or the voxels of the mask written.
CreateTemporalVarianceMask(functional, mask, thr, by_slice) ==
    LET fail == [err |-> "ValueError", mask |-> {}]
        vars3d == [v \in DOMAIN functional.data |-> Var(functional.data[v])]
    IN  IF functional.path # "nii" THEN fail
        ELSE IF mask.path # "nii" THEN fail
        ELSE IF Falsy(thr) THEN fail
        ELSE IF thr.kind = "bad" THEN fail
        ELSE IF thr.v < 0 THEN fail
        ELSE IF ThresholdMethod(thr) = "PCT" /\ thr.v >= 100 THEN fail
        ELSE IF by_slice \notin {"True", "False"} THEN fail
        ELSE IF \E v \in DOMAIN functional.data : Len(functional.data[v]) < 3 THEN fail
        ELSE IF ~mask.matches THEN fail
        ELSE [err |-> "none", mask |-> VarianceMask(vars3d, mask.data, thr, by_slice)]

\* The number of voxels of a slice, and the largest amplitude of a time course.
PlaneSize == 2
MaxAmp == 2

\* Two slices along the third axis.
Voxels == (1..PlaneSize) \X (1..2)
\* A time course of n samples with variance a * a.
Course(a, n) == [i \in 1..n |-> IF i % 2 = 1 THEN a ELSE 0 - a]
Volumes(n) == {[v \in Voxels |-> Course(amp[v], n)] : amp \in [Voxels -> 0..MaxAmp]}
MaskSets ==
    {Voxels, {}} \cup {Voxels \ {v} : v \in Voxels} \cup {{v \in Voxels : v[2] = z} : z \in 1..2}
\* A path argument: a .nii file with its data (matches: shape and affine are those
\* of the functional image), or a path that does not end in .nii or .nii.gz.
Image(data) == [path |-> "nii", matches |-> TRUE, data |-> data]
NoImage == [path |-> "none", matches |-> FALSE, data |-> {}]

VarianceCall(functional, mask, thr, by_slice) ==
    [done |-> FALSE, functional |-> functional, mask |-> mask, threshold |-> thr,
     by_slice |-> by_slice, out |-> [err |-> "none", mask |-> {}]]

\* The calls that get to the loop, and the calls an argument check refuses.
GoodThresholds == {NumThreshold(1), SdThreshold(1), PctThreshold(50), PctThreshold(20)}
RefusedThresholds ==
    {NoThreshold, NumThreshold(0), NumThreshold(0 - 1), PctThreshold(100), BadThreshold}
InitVariance ==
    /\ NoPool /\ censor = NoCensor /\ summary = Idle /\ ident = Idle
    /\ \/ \E vol \in Volumes(4), m \in MaskSets, thr \in GoodThresholds,
             by_slice \in {"True", "False"} :
             variance = VarianceCall(Image(vol), Image(m), thr, by_slice)
       \/ \E vol \in Volumes(4), thr \in GoodThresholds, by_slice \in {"True", "False"},
             mask \in {NoImage, [Image(Voxels) EXCEPT !.path = "txt"],
                       [Image(Voxels) EXCEPT !.matches = FALSE]} :
             variance = VarianceCall(Image(vol), mask, thr, by_slice)
       \/ \E thr \in RefusedThresholds, by_slice \in {"True", "False"}, vol \in Volumes(4) :
             variance = VarianceCall(Image(vol), Image(Voxels), thr, by_slice)
       \/ \E thr \in GoodThresholds, vol \in Volumes(4) \cup Volumes(2),
             f \in {"nii", "txt", "none"}, by_slice \in {"True", "False", "1"} :
             variance = VarianceCall([Image(vol) EXCEPT !.path = f], Image(Voxels), thr, by_slice)

\* create_temporal_variance_mask(functional_file_path, mask_file_path, threshold, by_slice)
CreateMask ==
    /\ ~variance.done
    /\ variance' = [variance EXCEPT
                      !.done = TRUE,
                      !.out = CreateTemporalVarianceMask(variance.functional, variance.mask,
                                                         variance.threshold, variance.by_slice)]

NextVariance ==
    /\ CreateMask
    /\ UNCHANGED <<pool, wf, reg, attrs, ants, builds, call, censor, summary, ident>>

---------------------------------------------------------------------------
(* summarize_timeseries *)

\* The function is followed on array shapes: a shape is the sequence of the
\* lengths of an array's axes, and every numpy call is its effect on the shape.

Min(a, b) == IF a < b THEN a ELSE b

\* if type(summary) is not dict: summary = {'method': summary}
AsDict(isdict, arg) == IF isdict THEN arg ELSE [method |-> arg]

SelectedByFirst(masks) == {v \in DOMAIN masks[1] : masks[1][v] > 0}

\* np.sum(np.array([...]), axis=0) > 0.0: a mask is its value at each voxel, and a
\* voxel is selected when the sum of the values the masks have there is positive.
SelectedVoxels(masks) ==
    {v \in DOMAIN masks[1] : Sum([i \in 1..Len(masks) |-> masks[i][v]]) > 0}

\* functional_img.get_data()[mask]: one row per selected voxel, one column per volume
Masked(masks, timepoints) == <<Cardinality(SelectedVoxels(masks)), timepoints>>

\* np.zeros(masked_functional.shape[-1])
Zeros(shape) == <<shape[Len(shape)]>>

\* a.mean(axis): the axis is averaged away (axes are numbered from 0)
MeanOver(shape, axis) == [i \in 1..(Len(shape) - 1) |-> IF i <= axis THEN shape[i] ELSE shape[i + 1]]

\* a.T
Transposed(shape) == [i \in 1..Len(shape) |-> shape[Len(shape) + 1 - i]]

\* np.tile(a, (reps, 1)) of a one-dimensional array
Tiled(shape, reps) == <<reps, shape[1]>>

\* U of np.linalg.svd(a, full_matrices=False): M x min(M, N) for an M x N array
SvdU(shape) == <<shape[1], Min(shape[1], shape[2])>>

\* U[:, 0:components]: a slice stops at the last column there is
FirstColumns(shape, components) == <<shape[1], Min(components, shape[2])>>

\* np.savetxt: a one-dimensional array is written as one column
Written(shape) ==
    [err |-> "none", rows |-> shape[1], cols |-> IF Len(shape) = 1 THEN 1 ELSE shape[2]]

SummarizeTimeseries(masks, timepoints, isdict, arg) ==
    LET summary_ == AsDict(isdict, arg)
        masked_functional == Masked(masks, timepoints)
        r0 == Zeros(masked_functional)
        r1 == IF summary_.method = "Mean" THEN MeanOver(masked_functional, 0) ELSE r0
        r2 == IF summary_.method = "NormMean" THEN MeanOver(masked_functional, 0) ELSE r1
        r3 == IF summary_.method = "DetrendNormMean"
              THEN MeanOver(Transposed(masked_functional), 0) ELSE r2
        mean_signal == Tiled(MeanOver(masked_functional, 1), masked_functional[2])
        U == SvdU(Transposed(masked_functional))
        out == IF summary_.method = "PC"
               THEN IF mean_signal # Transposed(masked_functional)
                    THEN [err |-> "ValueError", rows |-> 0, cols |-> 0]
                    ELSE IF "components" \notin DOMAIN summary_
                    THEN [err |-> "KeyError", rows |-> 0, cols |-> 0]
                    ELSE Written(FirstColumns(U, summary_.components))
               ELSE Written(r3)
    IN  [err |-> out.err, rows |-> out.rows, cols |-> out.cols, mask |-> SelectedVoxels(masks)]

MaxVoxels == 3
MaxTimepoints == 4
MaxComponents == 4

Methods == {"Mean", "NormMean", "DetrendNormMean", "PC", "DetrendMean", "Median"}
\* Mask volumes hold no negative value: 0 outside, 1 or another positive value
\* inside. A call is given one mask or two, which select a voxel at least.
MaskValues == {0, 1, 2}
MaskSet == [1..MaxVoxels -> MaskValues]
MaskLists ==
    LET few == {[v \in 1..MaxVoxels |-> IF v = 1 THEN 1 ELSE 0],
                [v \in 1..MaxVoxels |-> IF v = MaxVoxels THEN 2 ELSE 0]}
        lists == {<<a>> : a \in MaskSet}
                 \cup {<<a, b>> : a \in MaskSet, b \in few}
                 \cup {<<b, a>> : a \in MaskSet, b \in few}
    IN  {masks \in lists : SelectedVoxels(masks) # {}}

SummaryCall(masks, timepoints, isdict, arg) ==
    [masks |-> masks, timepoints |-> timepoints, isdict |-> isdict, arg |-> arg,
     done |-> FALSE, out |-> [err |-> "none", rows |-> 0, cols |-> 0, mask |-> {}]]

InitSummary ==
    /\ NoPool /\ censor = NoCensor /\ variance = Idle /\ ident = Idle
    /\ \E masks \in MaskLists, timepoints \in 1..MaxTimepoints :
           \/ \E method \in Methods : summary = SummaryCall(masks, timepoints, FALSE, method)
           \/ \E method \in Methods : summary = SummaryCall(masks, timepoints, TRUE, [method |-> method])
           \/ \E method \in Methods, components \in 1..MaxComponents :
                 summary = SummaryCall(masks, timepoints, TRUE,
                                       [method |-> method, components |-> components])

Summarize ==
    /\ ~summary.done
    /\ summary' = [summary EXCEPT !.done = TRUE,
                      !.out = SummarizeTimeseries(summary.masks, summary.timepoints,
                                                  summary.isdict, summary.arg)]

NextSummary ==
    /\ Summarize
    /\ UNCHANGED <<pool, wf, reg, attrs, ants, builds, call, censor, variance, ident>>

---------------------------------------------------------------------------
(* NuisanceRegressor.__repr__ *)

\* A selection maps regressor-type keys to selectors; a selector is a record of
\* the options it holds.  Keys are strings; the identity string and its pieces
\* are sequences of characters.  Fractional numbers are held in thousandths.

\* "%.2f" % x for x = n / 1000 >= 0 (n is not halfway between two hundredths)
Fmt2f(n) ==
    LET q == (n + 5) \div 10
    IN  NatStr(q \div 100) \o <<".", Digit((q \div 10) % 10), Digit(q % 10)>>

\* The digits after the point of a "%g" number, trailing zeros removed.
RECURSIVE Stripped(_)
Stripped(digits) ==
    IF digits = <<>> THEN <<>>
    ELSE IF digits[Len(digits)] = "0" THEN Stripped(SubSeq(digits, 1, Len(digits) - 1))
    ELSE <<".">> \o digits

\* "%.2g" % x for x = n / 1000, 0 <= x < 99.5: two significant digits, no
\* trailing zeros (n is not halfway between two roundings)
Fmt2g(n) ==
    IF n >= 10000 THEN NatStr((n + 500) \div 1000)
    ELSE IF n >= 1000
         THEN LET q == (n + 50) \div 100
              IN  NatStr(q \div 10) \o Stripped(<<Digit(q % 10)>>)
    ELSE IF n >= 100
         THEN LET q == (n + 5) \div 10
              IN  NatStr(q \div 100) \o Stripped(<<Digit((q \div 10) % 10), Digit(q % 10)>>)
    ELSE <<"0">> \o Stripped(<<"0", Digit(n \div 10), Digit(n % 10)>>)

\* A summary option: the name of a method, or a dictionary.
SummaryName(method) == [dict |-> FALSE, method |-> method, components |-> 0]
SummaryDict(method, components) == [dict |-> TRUE, method |-> method, components |-> components]

\* selector.get(key) of a flag
Flag(selector, key) == key \in DOMAIN selector /\ selector[key]
\* selector.get(key) of a number
Number(selector, key) == key \in DOMAIN selector /\ selector[key] # 0

Piece(s) == [err |-> "none", s |-> s]
KeyError == [err |-> "KeyError", s |-> <<>>]

_derivative_params(selector) ==
    IF DOMAIN selector = {} THEN <<>>
    ELSE (IF Flag(selector, "include_squared") THEN <<"S">> ELSE <<>>)
         \o (IF Flag(selector, "include_delayed") THEN <<"D">> ELSE <<>>)
         \o (IF Flag(selector, "include_delayed_squared") THEN <<"B">> ELSE <<>>)

methods ==
    [PC |-> <<"P","C">>, Mean |-> <<"M">>, NormMean |-> <<"N","M">>,
     DetrendMean |-> <<"D","M">>, DetrendNormMean |-> <<"D","N","M">>]

_summary_params(selector) ==
    IF "summary" \notin DOMAIN selector THEN KeyError
    ELSE LET summ == selector["summary"]
         IN  IF summ.method \notin DOMAIN methods THEN KeyError
             ELSE IF summ.dict /\ summ.method = "PC"
                  THEN Piece(methods[summ.method] \o NatStr(summ.components))
                  ELSE Piece(methods[summ.method])

regs ==
    [GreyMatter |-> <<"G","M">>, WhiteMatter |-> <<"W","M">>,
     CerebrospinalFluid |-> <<"C","S","F">>, tCompCor |-> <<"t","C">>,
     aCompCor |-> <<"a","C">>, GlobalSignal |-> <<"G">>, Motion |-> <<"M">>,
     PolyOrt |-> <<"P">>, Bandpass |-> <<"B">>, Censor |-> <<"C">>]

tissues == {"GreyMatter", "WhiteMatter", "CerebrospinalFluid"}

censoring == [Kill |-> <<"K">>, Zero |-> <<"Z">>, Interpolate |-> <<"I">>, SpikeRegression |-> <<"S">>]
thresholds == [FD |-> <<"F","D">>, DVARS |-> <<"D","V">>]

\* The pieces or the first error of a list of pieces.
Pieces(ps) ==
    IF \E i \in 1..Len(ps) : ps[i].err # "none"
    THEN [err |-> ps[CHOOSE i \in 1..Len(ps) : ps[i].err # "none" /\ \A j \in 1..(i - 1) : ps[j].err = "none"].err,
          pieces |-> <<>>]
    ELSE [err |-> "none", pieces |-> [i \in 1..Len(ps) |-> ps[i].s]]

\* res = "%.2f" % s['extraction_resolution'], with 'E' when the mask is eroded
Res(s) ==
    IF Number(s, "extraction_resolution")
    THEN Fmt2f(s["extraction_resolution"]) \o (IF Flag(s, "erode_mask") THEN <<"E">> ELSE <<>>)
    ELSE <<>>

\* The tissue and aCompCor branches compute res and leave it out of the pieces.
TissuePieces(s) ==
    LET res == Res(s)
    IN  <<_summary_params(s), Piece(_derivative_params(s))>>

TCompCorPieces(s) ==
    LET by == IF Flag(s, "by_slice") THEN <<"S">> ELSE <<>>
        t == IF "threshold" \in DOMAIN s THEN s["threshold"] ELSE StrVal(<<>>)
        threshold == IF t.kind = "str" THEN by \o t.s
                     ELSE IF t.n # 0 THEN by \o Fmt2f(t.n) ELSE by
    IN  <<Piece(threshold), _summary_params(s), Piece(_derivative_params(s))>>

ACompCorPieces(s) ==
    LET ts == IF "tissues" \in DOMAIN s THEN s["tissues"] ELSE <<>>
        joined == IF \E i \in 1..Len(ts) : ts[i] \notin DOMAIN regs THEN KeyError
                  ELSE Piece(Join(<<"+">>, [i \in 1..Len(ts) |-> regs[ts[i]]]))
        res == Res(s)
    IN  (IF ts # <<>> THEN <<joined>> ELSE <<>>)
        \o <<_summary_params(s), Piece(_derivative_params(s))>>

\* sorted(s['thresholds'], reverse=True, key=lambda d: d['type']): the sort is
\* stable, so thresholds of one type keep their order.
Sorted(threshs) ==
    LET IsFD(st) == st.type = "FD"
        IsDVARS(st) == st.type = "DVARS"
    IN  SelectSeq(threshs, IsFD) \o SelectSeq(threshs, IsDVARS)

Thresh(st) ==
    IF st.type \notin DOMAIN thresholds THEN KeyError
    ELSE Piece(thresholds[st.type]
               \o (IF st.value.kind = "str" THEN st.value.s ELSE Fmt2g(st.value.n)))

CensorPieces(s) ==
    LET trs_range ==
            << IF Number(s, "number_of_previous_trs_to_remove")
               THEN NatStr(s["number_of_previous_trs_to_remove"]) ELSE <<"0">>,
               IF Number(s, "number_of_subsequent_trs_to_remove")
               THEN NatStr(s["number_of_subsequent_trs_to_remove"]) ELSE <<"0">> >>
        threshs == Sorted(s["thresholds"])
    IN  << IF s["method"] \in DOMAIN censoring THEN Piece(censoring[s["method"]]) ELSE KeyError,
           Piece(Join(<<"+">>, trs_range)) >>
        \o [i \in 1..Len(threshs) |-> Thresh(threshs[i])]

\* The pieces that follow the code of type r; the branches are tested on the
\* names the code spells.
MorePieces(r, s) ==
    IF r \in tissues THEN TissuePieces(s)
    ELSE IF r = "tCompCor" THEN TCompCorPieces(s)
    ELSE IF r = "aCompCor" THEN ACompCorPieces(s)
    ELSE IF r = "Global" THEN <<_summary_params(s), Piece(_derivative_params(s))>>
    ELSE IF r = "Motion" THEN <<Piece(_derivative_params(s))>>
    ELSE IF r = "PolyOrt" THEN <<Piece(NatStr(s["degree"]))>>
    ELSE IF r = "BandPass"
         THEN <<Piece(<<"T">> \o Fmt2f(s["top_frequency"])),
                Piece(<<"B">> \o Fmt2f(s["bottom_frequency"]))>>
    ELSE IF r = "Censor" THEN CensorPieces(s)
    ELSE <<>>

\* '-'.join(filter(None, pieces))
Representation(r, s) ==
    LET ps == Pieces(<<Piece(regs[r])>> \o MorePieces(r, s))
        NotEmpty(piece) == piece # <<>>
    IN  IF ps.err # "none" THEN [err |-> ps.err, s |-> <<>>]
        ELSE Piece(Join(<<"-">>, SelectSeq(ps.pieces, NotEmpty)))

ReprStrict(selector, keys) ==
    LET InSelector(r) == r \in DOMAIN selector
        present == SelectSeq(keys, InSelector)
        ps == Pieces([i \in 1..Len(present) |-> Representation(present[i], selector[present[i]])])
    IN  IF ps.err # "none" \/ ~(DOMAIN selector \subseteq DOMAIN regs)
        THEN [err |-> "KeyError", s |-> <<>>]
        ELSE Piece(Join(<<"_">>, ps.pieces))

\* __repr__: keys is regs.keys(), in the order the dictionary yields them.
Repr(selector, keys) ==
    LET InSelector(r) == r \in DOMAIN selector
        present == SelectSeq(keys, InSelector)
        ps == Pieces([i \in 1..Len(present) |-> Representation(present[i], selector[present[i]])])
    IN  IF ps.err # "none" THEN [err |-> ps.err, s |-> <<>>]
        ELSE Piece(Join(<<"_">>, ps.pieces))

\* The orders in which regs.keys() yields the keys: the order of the literal
\* (dictionaries that keep insertion order) and a hash order (CPython 2.7,
\* 64-bit, string hashing not randomised).
LiteralOrder ==
    <<"GreyMatter", "WhiteMatter", "CerebrospinalFluid", "tCompCor", "aCompCor",
      "GlobalSignal", "Motion", "PolyOrt", "Bandpass", "Censor">>
HashOrder ==
    <<"Motion", "CerebrospinalFluid", "Bandpass", "tCompCor", "aCompCor",
      "GlobalSignal", "WhiteMatter", "GreyMatter", "Censor", "PolyOrt">>
KeyOrders == {LiteralOrder, HashOrder}

MaxTypes == 2

\* The selectors a key of a selection is given; "Custom" is a key outside the
\* closed set of types.
Options(r) ==
    LET TissueOptions ==
            { [summary |-> SummaryName("Mean")],
              [summary |-> SummaryName("Mean"), extraction_resolution |-> 2000],
              [summary |-> SummaryName("Mean"), extraction_resolution |-> 3000],
              [summary |-> SummaryName("Mean"), extraction_resolution |-> 2000, erode_mask |-> TRUE],
              [summary |-> SummaryDict("PC", 2), include_squared |-> TRUE] }
        TCompCorOptions ==
            { [summary |-> SummaryDict("PC", 5), threshold |-> StrVal(<<"1",".","5","S","D">>), by_slice |-> TRUE],
              [summary |-> SummaryDict("PC", 5), threshold |-> NumVal(1500)],
              [summary |-> SummaryDict("PC", 5), threshold |-> StrVal(<<"2","P","C","T">>)] }
        ACompCorOptions ==
            { [summary |-> SummaryDict("PC", 5), tissues |-> <<"WhiteMatter", "CerebrospinalFluid">>],
              [summary |-> SummaryDict("PC", 5), tissues |-> <<"WhiteMatter", "CerebrospinalFluid">>,
               extraction_resolution |-> 2000],
              [summary |-> SummaryDict("PC", 5), tissues |-> <<"WhiteMatter", "CerebrospinalFluid">>,
               extraction_resolution |-> 2000, erode_mask |-> TRUE],
              [summary |-> SummaryDict("PC", 5), tissues |-> <<"WhiteMatter">>] }
        GlobalSignalOptions ==
            { [summary |-> SummaryName("Mean")],
              [summary |-> SummaryName("NormMean")],
              [summary |-> SummaryName("Mean"), include_delayed |-> TRUE],
              [summary |-> SummaryDict("PC", 2), include_squared |-> TRUE] }
        MotionOptions ==
            { [include_squared |-> FALSE],
              [include_squared |-> TRUE],
              [include_squared |-> TRUE, include_delayed |-> TRUE, include_delayed_squared |-> TRUE] }
        PolyOrtOptions ==
            { [degree |-> 2], [degree |-> 12] }
        BandpassOptions ==
            { [bottom_frequency |-> 10, top_frequency |-> 100],
              [bottom_frequency |-> 10, top_frequency |-> 80],
              [bottom_frequency |-> 20, top_frequency |-> 100] }
        CensorOptions ==
            { [method |-> "Kill", thresholds |-> <<[type |-> "FD", value |-> NumVal(200)]>>],
              [method |-> "Kill", number_of_previous_trs_to_remove |-> 1,
               thresholds |-> <<[type |-> "FD", value |-> NumVal(200)]>>],
              [method |-> "SpikeRegression",
               thresholds |-> <<[type |-> "DVARS", value |-> StrVal(<<"1",".","5","S","D">>)],
                                [type |-> "FD", value |-> NumVal(1500)]>>],
              [method |-> "SpikeRegression",
               thresholds |-> <<[type |-> "FD", value |-> NumVal(1500)],
                                [type |-> "DVARS", value |-> StrVal(<<"1",".","5","S","D">>)]>>],
              [method |-> "Kill",
               thresholds |-> <<[type |-> "FD", value |-> NumVal(200)],
                                [type |-> "FD", value |-> NumVal(1500)]>>],
              [method |-> "Kill",
               thresholds |-> <<[type |-> "FD", value |-> NumVal(1500)],
                                [type |-> "FD", value |-> NumVal(200)]>>] }
        OtherOptions ==
            { [degree |-> 2] }
    IN  IF r \in tissues THEN TissueOptions
        ELSE IF r = "tCompCor" THEN TCompCorOptions
        ELSE IF r = "aCompCor" THEN ACompCorOptions
        ELSE IF r = "GlobalSignal" THEN GlobalSignalOptions
        ELSE IF r = "Motion" THEN MotionOptions
        ELSE IF r = "PolyOrt" THEN PolyOrtOptions
        ELSE IF r = "Bandpass" THEN BandpassOptions
        ELSE IF r = "Censor" THEN CensorOptions
        ELSE OtherOptions

Keys == DOMAIN regs \cup {"Custom"}

\* The selections over a set of keys.
RECURSIVE SelectionsOver(_)
SelectionsOver(ks) ==
    IF ks = {} THEN {<<>>}
    ELSE LET k == CHOOSE x \in ks : TRUE
         IN  {(k :> o) @@ f : o \in Options(k), f \in SelectionsOver(ks \ {k})}

Selections ==
    UNION {SelectionsOver(ks) : ks \in {x \in SUBSET Keys : Cardinality(x) \in 1..MaxTypes}}

\* A selection and the selections that differ from it in one selector.
Variants(a) == {a} \cup UNION {{[a EXCEPT ![k] = o] : o \in Options(k)} : k \in DOMAIN a}

\* A selection with one or two more keys outside the closed set of types.
WithOtherKeys(a) ==
    {a @@ ("Custom" :> o) : o \in Options("Custom")}
    \cup {a @@ ("Custom" :> o) @@ ("Scrubbing" :> o) : o \in Options("Scrubbing")}

NoRepr == [err |-> "none", s |-> <<>>]

InitRepr ==
    /\ NoPool /\ censor = NoCensor /\ variance = Idle /\ summary = Idle
    /\ \E a \in Selections, keys \in KeyOrders :
           \E b \in Variants(a) \cup WithOtherKeys(a) :
               ident = [a |-> a, b |-> b, keys |-> keys, done |-> FALSE, ra |-> NoRepr, rb |-> NoRepr]

Canonicalize ==
    /\ ~ident.done
    /\ ident' = [ident EXCEPT !.done = TRUE,
                              !.ra = Repr(ident.a, ident.keys),
                              !.rb = Repr(ident.b, ident.keys)]

NextRepr ==
    /\ Canonicalize
    /\ UNCHANGED <<pool, wf, reg, attrs, ants, builds, call, censor, variance, summary>>

---------------------------------------------------------------------------
Init ==
    /\ InitPool
    /\ censor = NoCensor /\ variance = Idle /\ summary = Idle /\ ident = Idle

Next == NextPool

Spec == Init /\ [][Next]_vars

InitKeys ==
    /\ InitKeyPool
    /\ censor = NoCensor /\ variance = Idle /\ summary = Idle /\ ident = Idle

SpecKeys == InitKeys /\ [][NextKeys]_vars

SpecCensor == InitCensor /\ [][NextCensor]_vars

SpecVariance == InitVariance /\ [][NextVariance]_vars

SpecSummary == InitSummary /\ [][NextSummary]_vars

SpecRepr == InitRepr /\ [][NextRepr]_vars

---------------------------------------------------------------------------
(* Claims: generate_summarize_tissue_mask *)

\* The prefix keys of the last call's descriptor.
CallKeys == {MaskKey(call.desc, i) : i \in 1..Len(Steps(call.desc))}

C2_UnknownTissueRaises ==
    ( /\ call.err # "nocall"
      /\ "tissue" \in DOMAIN call.desc
      /\ call.desc["tissue"] \notin DOMAIN call.prePool
      /\ ~StartsWith(call.desc["tissue"], sFunctionalVariance)
      /\ call.desc["tissue"] # sCerebrospinalFluid )
    => (call.err # "none" /\ pool = call.prePool)

\* C13: across any sequence of calls the pool only grows: a call removes no
\* key and rebinds no key, base resource or derived mask, to another reference.
C13_PoolOnlyGrows ==
    [][\A k \in DOMAIN pool : k \in DOMAIN pool' /\ pool'[k] = pool[k]]_vars

\* A second call has added a key to a pool that held a base resource named by
\* the call's descriptor and a mask derived by the first call.
C13_Witness ==
    /\ call.n = 2
    /\ DOMAIN pool # DOMAIN call.prePool
    /\ \E k \in DOMAIN call.prePool : k \in DOMAIN builds
    /\ \E k \in CallKeys : k \in DOMAIN call.prePool /\ k \notin DOMAIN builds

\* C14: whenever a call returns normally, the full key it returns is in the
\* pool, for every descriptor, also one with a tissue step only or with no step.
C14_ReturnedKeyInPool ==
    call.err = "none" => call.key \in DOMAIN pool

\* The input fields a builder node gets connected and the inputs it gets set,
\* by the kind of node.
WiredFields(node) ==
    IF StartsWith(node, sCreateVarNode) THEN {"functional_file_path", "mask_file_path"}
    ELSE IF node = sMaskCfsNode THEN {"in_file_a", "in_file_b"}
    ELSE IF StartsWith(node, sMaskToEpiNode) THEN {"reference", "in_file"}
    ELSE {"in_file_a"}
SetInputs(node) ==
    IF StartsWith(node, sCreateVarNode) THEN {"threshold", "by_slice"}
    ELSE IF node = sMaskCfsNode THEN {"expr"}
    ELSE IF StartsWith(node, sMaskToEpiNode) THEN {}
    ELSE {"expr"}
FullyWired(node) ==
    /\ node \in reg
    /\ WiredFields(node) \subseteq {e.field : e \in {x \in wf : x.dst = node}}
    /\ SetInputs(node) \subseteq DOMAIN attrs[node]

\* C15: when building a step fails, the pool holds no entry for that step's
\* prefix key afterwards and every entry it held before the call is unchanged;
\* a derived key is in the pool only if its builder was fully wired.
C15_NoPartialEntry ==
    /\ (call.err \notin {"none", "nocall"}) =>
          /\ call.errKey \notin DOMAIN pool
          /\ \A k \in DOMAIN call.prePool : k \in DOMAIN pool /\ pool[k] = call.prePool[k]
    /\ \A k \in DOMAIN builds : k \in DOMAIN pool /\ FullyWired(pool[k].node)

\* The second step of a call has failed after its first step was built.
C15_Witness ==
    /\ call.err \notin {"none", "nocall"}
    /\ call.errKey \notin DOMAIN pool
    /\ \E k \in DOMAIN builds : k \in DOMAIN pool /\ k \notin DOMAIN call.prePool

\* The fragments of a descriptor in the order tissue, resolution, erosion.
OrderedFragments(desc) ==
    (IF "tissue" \in DOMAIN desc THEN <<desc["tissue"]>> ELSE <<>>)
    \o (IF "resolution" \in DOMAIN desc THEN <<desc["resolution"]>> ELSE <<>>)
    \o (IF "erosion" \in DOMAIN desc THEN <<desc["erosion"]>> ELSE <<>>)
\* The prefix key of the first n fragments.
PrefixKey(desc, n) == Join(<<"_">>, SubSeq(OrderedFragments(desc), 1, n))
\* The sources connected to the mask input of a resolution or erosion node.
MaskInputs(node) ==
    {e.src : e \in {x \in wf : x.dst = node /\ x.field \in {"in_file", "in_file_a"}}}

\* C24: the steps of a call are handled in the order tissue, resolution,
\* erosion; each resolution or erosion artifact the call has built takes as its
\* input exactly the artifact the pool holds under the preceding prefix key, and
\* is in the pool under its own prefix key, so that the next step finds it.
C24_InputIsPreviousPrefix ==
    (call.err # "nocall") =>
        /\ call.err = "none" =>
              call.key = PrefixKey(call.desc, Len(OrderedFragments(call.desc)))
        /\ \A n \in 2..Len(OrderedFragments(call.desc)) :
              LET k == PrefixKey(call.desc, n)
                  pk == PrefixKey(call.desc, n - 1)
              IN  (k \in DOMAIN pool /\ k \notin DOMAIN call.prePool) =>
                      /\ pk \in DOMAIN pool
                      /\ MaskInputs(pool[k].node) = {pool[pk]}

\* A call has built its three steps, each on the one before.
C24_Witness ==
    /\ call.err = "none"
    /\ Len(OrderedFragments(call.desc)) = 3
    /\ \A n \in 1..3 : /\ PrefixKey(call.desc, n) \in DOMAIN pool
                       /\ PrefixKey(call.desc, n) \notin DOMAIN call.prePool

\* The step whose builder made the node of a reference; "base" for a resource
\* the caller put in the pool.
Producer(ref) ==
    CASE StartsWith(ref.node, sCreateVarNode) -> "tissue"
      [] ref.node = sMaskCfsNode -> "tissue"
      [] StartsWith(ref.node, sMaskToEpiNode) -> "resolution"
      [] StartsWith(ref.node, sErodeNode) -> "erosion"
      [] OTHER -> "base"

\* The base resources of the pool that are no tissue masks.
NamedBaseResources ==
    {sFunctional, sGlobalSignal, sTransformations, sVentricles, sCerebrospinalFluidUnmasked,
     sAnatomicalPrefix \o <<"2">> \o sMm}

\* C26: mask-derivation keys are unambiguous. The key of the first n fragments of
\* a descriptor is never the name of one of the base resources Functional,
\* GlobalSignal, Transformations, Ventricles, CerebrospinalFluidUnmasked and
\* Anatomical_<r>mm, and the pool entry the key resolves to was made for that
\* sequence of steps: by the builder of the n-th step, or, for a tissue, handed
\* in by the caller under the tissue's name.
C26_KeysUnambiguous ==
    (call.err = "none") =>
        \A n \in 1..Len(OrderedFragments(call.desc)) :
            LET k == PrefixKey(call.desc, n)
            IN  /\ k \notin NamedBaseResources
                /\ k \in DOMAIN pool =>
                      \/ Producer(pool[k]) = Steps(call.desc)[n]
                      \/ Producer(pool[k]) = "base" /\ n = 1

\* The extraction resolution a resampling node works at: its apply_isoxfm input,
\* or 'Functional' for a node that has none and takes the functional reference.
ResolutionOf(node) ==
    IF "apply_isoxfm" \in DOMAIN attrs[node] THEN attrs[node]["apply_isoxfm"]
    ELSE StrVal(sFunctional)

\* C27: after any sequence of calls on one pool, what a selection resolves to was
\* built with the selection's own parameters: the variance-mask node under its
\* FunctionalVariance key has the threshold and the by_slice of the selector of
\* the call, and the resampling node under its resolution key has the selector's
\* extraction_resolution, also when an earlier call with the same fragments and
\* other selector values put the key in the pool.
C27_BuiltWithOwnParameters ==
    (call.err = "none") =>
        \A n \in 1..Len(OrderedFragments(call.desc)) :
            LET k == PrefixKey(call.desc, n)
                step == Steps(call.desc)[n]
            IN  (k \in DOMAIN pool /\ Producer(pool[k]) = step) =>
                    /\ (step = "tissue" /\ StartsWith(k, sFunctionalVariance)
                          /\ {"threshold", "by_slice"} \subseteq DOMAIN call.sel) =>
                            /\ attrs[pool[k].node]["threshold"] = call.sel["threshold"]
                            /\ attrs[pool[k].node]["by_slice"] = call.sel["by_slice"]
                    /\ (step = "resolution" /\ "extraction_resolution" \in DOMAIN call.sel) =>
                            ResolutionOf(pool[k].node) = call.sel["extraction_resolution"]

\* C28: after any sequence of calls on one workflow and one pool no two builder
\* nodes share a name: the nodes built for distinct prefix keys have distinct
\* names, and no call creates a node, one of the fixed-name CerebrospinalFluid
\* nodes included, under a name that a node of the workflow already has (connect
\* refuses such a node with an IOError).
C28_NodeNamesUnique ==
    /\ \A k1 \in DOMAIN builds, k2 \in DOMAIN builds :
          (k1 # k2 /\ k1 \in DOMAIN pool /\ k2 \in DOMAIN pool) => pool[k1].node # pool[k2].node
    /\ call.err # "IOError"

---------------------------------------------------------------------------
(* Claims: find_offending_time_points *)

\* C3: whenever both an FD series and a DVARS series are supplied, the final
\* offending set is the intersection of the FD offending set and the DVARS
\* offending set, also when the FD offending set is empty.
C3_BothIsIntersection ==
    (censor.done /\ censor.fd.path /\ censor.dv.path /\ censor.out.err = "none")
    => censor.out.offending =
          Where(censor.fd.data, censor.fd_threshold)
          \cap Where(Prepended(censor.dv.data), censor.dvars_threshold)

\* C4: the censor vector is 0 at index j exactly when 0 <= j < length and some
\* offending index i has i - preWindow <= j <= i + postWindow, and 1 at every
\* other index; the series [0,0,5,0,0] with threshold 1 and windows 1/1 gives
\* [1,0,0,0,1].
C4_WindowedVector ==
    (censor.done /\ censor.out.err = "none")
    => /\ Len(censor.out.vector) = censor.out.len
       /\ \A j \in 0..(censor.out.len - 1) :
             /\ censor.out.vector[j + 1] \in {0, 1}
             /\ censor.out.vector[j + 1] = 0
                <=> \E i \in censor.out.offending :
                       i - censor.pre <= j /\ j <= i + censor.post
       /\ ( /\ censor.fd = File(<<0, 0, 5, 0, 0>>) /\ censor.dv = NoPath
            /\ censor.fd_threshold = NumThreshold(1)
            /\ censor.pre = 1 /\ censor.post = 1 )
          => censor.out.vector = <<1, 0, 0, 0, 1>>

\* The example of the claim has run.
C4_Witness ==
    /\ censor.done /\ censor.out.err = "none"
    /\ censor.fd = File(<<0, 0, 5, 0, 0>>) /\ censor.dv = NoPath
    /\ censor.fd_threshold = NumThreshold(1)
    /\ censor.pre = 1 /\ censor.post = 1
    /\ censor.out.offending = {2}

\* C16: the censor vector holds only 0 and 1 and its length is the number of
\* input timepoints: the length of the FD series whenever an FD series is
\* supplied, also with a DVARS series of any length, and the raw DVARS length
\* plus one when only DVARS is supplied.
C16_VectorLength ==
    (censor.done /\ censor.out.err = "none" /\ (censor.fd.path \/ censor.dv.path)) =>
        /\ \A j \in 1..Len(censor.out.vector) : censor.out.vector[j] \in {0, 1}
        /\ Len(censor.out.vector) =
              IF censor.fd.path THEN Len(censor.fd.data) ELSE Len(censor.dv.data) + 1

\* The value a threshold stands for on a series, times the length n of the
\* series, as the pair <<a, b>> of a + sqrt(b): a number v is n*v, and "<k> SD"
\* is n*mean + k*n*std = S + sqrt(k*k*(n*Q - S*S)).
ScaledThreshold(series, thr) ==
    LET n == Len(series)
        S == Sum(series)
        Q == Sum([i \in 1..n |-> series[i] * series[i]])
    IN  IF thr.kind = "num" THEN <<n * thr.v, 0>>
        ELSE <<S, thr.v * thr.v * (n * Q - S * S)>>
\* Sample i (from 0) of the series is strictly above the threshold.
StrictlyAbove(series, i, thr) ==
    LET n == Len(series)
        ab == ScaledThreshold(series, thr)
        d == n * series[i + 1] - ab[1]
    IN  d > 0 /\ d * d > ab[2]

\* C17: DVARS is thresholded after a leading 0.0 is prepended: raw sample k is
\* judged as timepoint k + 1 against the threshold of the prepended series, and
\* timepoint 0 is never flagged by DVARS (the thresholds are non-negative);
\* each series' offending set is exactly the indices whose value strictly
\* exceeds that series' threshold.
C17_DvarsShifted ==
    (censor.done /\ censor.out.err = "none") =>
        /\ censor.dv.path =>
              /\ censor.out.dvars_offending =
                    {k + 1 : k \in {j \in 0..(Len(censor.dv.data) - 1) :
                                       StrictlyAbove(<<0>> \o censor.dv.data, j + 1,
                                                     censor.dvars_threshold)}}
              /\ 0 \notin censor.out.dvars_offending
        /\ censor.fd.path =>
              censor.out.fd_offending =
                  {i \in 0..(Len(censor.fd.data) - 1) :
                      StrictlyAbove(censor.fd.data, i, censor.fd_threshold)}

\* A call on DVARS alone whose first raw sample is flagged, as timepoint 1,
\* under a "<k> SD" threshold.
C17_Witness ==
    /\ censor.done /\ censor.out.err = "none"
    /\ censor.dv.path /\ ~censor.fd.path
    /\ censor.dvars_threshold.kind = "sd"
    /\ censor.dv.data[1] = 5
    /\ 1 \in censor.out.dvars_offending
    /\ censor.out.offending = censor.out.dvars_offending

\* A series is supplied (its file exists) without a threshold, or with one that
\* is neither a number nor a "<k> SD" string.
Unusable(series, thr) == series.path /\ thr.kind \in {"none", "bad"}

\* C18: with existing series files, the function raises and writes no censor
\* output exactly when a series is supplied without its threshold or with a
\* threshold that is neither a number nor a "<k> SD" string; a numeric
\* threshold, 0 included, is never reported as missing.
C18_RaisesExactlyWhen ==
    (/\ censor.done
     /\ censor.fd.path => censor.fd.isfile
     /\ censor.dv.path => censor.dv.isfile) =>
        /\ censor.out.err # "none" <=>
              (Unusable(censor.fd, censor.fd_threshold)
               \/ Unusable(censor.dv, censor.dvars_threshold))
        /\ censor.out.err # "none" => ~censor.out.written

---------------------------------------------------------------------------
(* Claims: create_temporal_variance_mask *)

\* The last call's variance of a voxel, and the variances of its eligible voxels.
VoxelVar(v) == Var(variance.functional.data[v])
EligibleVars == [v \in variance.mask.data |-> VoxelVar(v)]
PctCall ==
    /\ variance.done /\ variance.out.err = "none"
    /\ variance.threshold.kind = "pct" /\ variance.by_slice = "False"

\* C5 as claimed: with a "<p>PCT" threshold and bySlice=false the mask holds
\* the eligible voxels whose variance is at or above the (100-p)th percentile of
\* the eligible-voxel variances, a voxel at the percentile value included.
C5_AtOrAbovePercentile ==
    PctCall =>
        variance.out.mask =
            {v \in variance.mask.data :
                100 * VoxelVar(v) >= Percentile100(EligibleVars, 100 - variance.threshold.v)}

\* C5 amended: the mask holds the eligible voxels whose variance is strictly
\* above that percentile; a voxel at the percentile value is left out.
C5_StrictlyAbovePercentile ==
    PctCall =>
        variance.out.mask =
            {v \in variance.mask.data :
                100 * VoxelVar(v) > Percentile100(EligibleVars, 100 - variance.threshold.v)}

\* A call that selects some voxels and leaves out a voxel at the percentile value.
C5_Witness ==
    /\ PctCall
    /\ variance.out.mask # {}
    /\ \E v \in variance.mask.data \ variance.out.mask :
          100 * VoxelVar(v) = Percentile100(EligibleVars, 100 - variance.threshold.v)

\* A call with a 4D functional file of three volumes or more, a threshold the
\* argument checks accept and a boolean by_slice.
WellFormedCall ==
    /\ variance.done
    /\ variance.functional.path = "nii"
    /\ \A v \in DOMAIN variance.functional.data : Len(variance.functional.data[v]) >= 3
    /\ variance.threshold \in GoodThresholds
    /\ variance.by_slice \in {"True", "False"}

\* C19: the eligible voxels are those inside the mask when a mask is given and
\* those with nonzero temporal variance when none is given; a call without a
\* mask succeeds and its output lies within the nonzero-variance voxels.
C19_EligibleVoxels ==
    /\ (WellFormedCall /\ variance.mask.path = "nii" /\ variance.out.err = "none") =>
          variance.out.mask \subseteq variance.mask.data
    /\ (WellFormedCall /\ variance.mask.path = "none") =>
          /\ variance.out.err = "none"
          /\ variance.out.mask \subseteq
                {v \in DOMAIN variance.functional.data : VoxelVar(v) > 0}

\* Voxel v is above the threshold of the call computed over the voxels elig.
AboveThresholdOver(v, elig) ==
    LET vals == [w \in elig |-> VoxelVar(w)]
        thr == variance.threshold
    IN  IF thr.kind = "pct" THEN 100 * VoxelVar(v) > Percentile100(vals, 100 - thr.v)
        ELSE IF thr.kind = "sd" THEN AboveMeanSd(VoxelVar(v), vals, thr.v)
        ELSE VoxelVar(v) > thr.v
\* The eligible voxels of the slice of voxel v along the third axis.
SliceOf(v) == {w \in variance.mask.data : w[2] = v[2]}

\* C20: with by_slice true the threshold is computed for each slice along the
\* third axis over that slice's eligible voxels only, so a voxel is selected
\* exactly when it is eligible and above the threshold of its own slice (a
\* slice without eligible voxels gives none); with by_slice false the one
\* threshold is computed over all eligible voxels.
C20_ThresholdPerSlice ==
    (variance.done /\ variance.out.err = "none") =>
        variance.out.mask =
            IF variance.by_slice = "True"
            THEN {v \in variance.mask.data : AboveThresholdOver(v, SliceOf(v))}
            ELSE {v \in variance.mask.data : AboveThresholdOver(v, variance.mask.data)}

\* A by-slice call with a percentile threshold that selects voxels, and not
\* those the threshold over all eligible voxels would select.
C20_Witness ==
    /\ variance.done /\ variance.out.err = "none"
    /\ variance.by_slice = "True" /\ variance.threshold.kind = "pct"
    /\ variance.out.mask # {}
    /\ variance.out.mask #
          {v \in variance.mask.data : AboveThresholdOver(v, variance.mask.data)}

\* C25: with an absolute numeric threshold the output mask is the same with
\* by_slice True and with by_slice False, for every functional series and mask:
\* in both cases it is the eligible voxels whose variance exceeds the number.
C25_NumericIgnoresBySlice ==
    (variance.done /\ variance.out.err = "none" /\ variance.threshold.kind = "num") =>
        variance.out.mask = {v \in variance.mask.data : VoxelVar(v) > variance.threshold.v}

\* A by-slice call with a numeric threshold that selects some of the eligible
\* voxels of a slice and none of the other slice's.
C25_Witness ==
    /\ variance.done /\ variance.out.err = "none"
    /\ variance.threshold.kind = "num" /\ variance.by_slice = "True"
    /\ \E v \in variance.out.mask : \E w \in SliceOf(v) : w \notin variance.out.mask
    /\ \E v \in variance.mask.data : SliceOf(v) \cap variance.out.mask = {}

---------------------------------------------------------------------------
(* Claims: summarize_timeseries *)

SummaryMethod == AsDict(summary.isdict, summary.arg).method

\* C6: with method PC and components = c the output has exactly c columns and
\* one row per timepoint, for every c >= 1 and every number of selected voxels
\* and of timepoints, also when c exceeds either of them.
C6_PcHasComponentsColumns ==
    (/\ summary.done /\ summary.isdict /\ SummaryMethod = "PC"
     /\ "components" \in DOMAIN summary.arg) =>
        /\ summary.out.err = "none"
        /\ summary.out.rows = summary.timepoints
        /\ summary.out.cols = summary.arg.components

\* C7: for Mean, NormMean and DetrendNormMean the output is a single column
\* with one value per timepoint, whatever the number of selected voxels.
C7_OneValuePerTimepoint ==
    (summary.done /\ SummaryMethod \in {"Mean", "NormMean", "DetrendNormMean"}) =>
        /\ summary.out.err = "none"
        /\ summary.out.cols = 1
        /\ summary.out.rows = summary.timepoints

\* C21: summarize_timeseries called with a summary method other than Mean,
\* NormMean, DetrendNormMean or PC (DetrendMean for one) raises an error
\* instead of writing a summary series.
C21_UnknownMethodRaises ==
    (summary.done /\ SummaryMethod \notin {"Mean", "NormMean", "DetrendNormMean", "PC"}) =>
        summary.out.err # "none"

\* C23: a voxel is selected exactly when at least one of the supplied masks is
\* nonzero at that voxel, for every list of one or more masks; the condition
\* does not depend on the positions of the masks in the list.
C23_LogicalOr ==
    summary.done =>
        summary.out.mask =
            {v \in DOMAIN summary.masks[1] :
                \E i \in 1..Len(summary.masks) : summary.masks[i][v] # 0}

\* Two masks: a voxel only the second mask has is selected, a voxel neither has
\* is not, and a voxel both have is.
C23_Witness ==
    /\ summary.done /\ Len(summary.masks) = 2
    /\ \E v \in summary.out.mask : summary.masks[1][v] = 0 /\ summary.masks[2][v] # 0
    /\ \E v \in DOMAIN summary.masks[1] :
          v \notin summary.out.mask /\ summary.masks[1][v] = 0 /\ summary.masks[2][v] = 0
    /\ \E v \in summary.out.mask : summary.masks[1][v] # 0 /\ summary.masks[2][v] # 0

---------------------------------------------------------------------------
(* Claims: NuisanceRegressor.__repr__ *)

\* The two selections of the state have the same keys and differ in the
\* selector of key r only.
DifferOnlyIn(r) ==
    /\ DOMAIN ident.a = DOMAIN ident.b
    /\ r \in DOMAIN ident.a
    /\ ident.a[r] # ident.b[r]
    /\ \A k \in (DOMAIN ident.a) \ {r} : ident.a[k] = ident.b[k]

\* The selector has the same options as the other but for those named.
SameBut(s, t, names) ==
    /\ (DOMAIN s) \ names = (DOMAIN t) \ names
    /\ \A k \in (DOMAIN s) \ names : s[k] = t[k]

\* C8: the token of GreyMatter, WhiteMatter, CerebrospinalFluid and aCompCor
\* holds the extraction resolution (and 'E' when erode_mask is set), so two
\* selections that differ only in extraction_resolution or erode_mask get
\* different identity strings.
C8_ResolutionInToken ==
    \A r \in tissues \cup {"aCompCor"} :
        (/\ ident.done /\ DifferOnlyIn(r)
         /\ SameBut(ident.a[r], ident.b[r], {"extraction_resolution", "erode_mask"})) =>
            /\ ident.ra.err = "none" /\ ident.rb.err = "none"
            /\ ident.ra.s # ident.rb.s

\* C9: the GlobalSignal token holds the summary-method code and the derivative
\* suffix, so two selections that differ only in GlobalSignal's summary method
\* or derivative flags get different identity strings.
C9_GlobalSignalToken ==
    (ident.done /\ DifferOnlyIn("GlobalSignal")) =>
        /\ ident.ra.err = "none" /\ ident.rb.err = "none"
        /\ ident.ra.s # ident.rb.s

\* C10: the Bandpass token holds 'T' + top frequency then 'B' + bottom
\* frequency, so two selections that differ only in Bandpass frequencies get
\* different identity strings.
C10_BandpassToken ==
    (ident.done /\ DifferOnlyIn("Bandpass")) =>
        /\ ident.ra.err = "none" /\ ident.rb.err = "none"
        /\ ident.ra.s # ident.rb.s

\* The fixed order of the regressor types.
TypeOrder ==
    <<"GreyMatter", "WhiteMatter", "CerebrospinalFluid", "tCompCor", "aCompCor",
      "GlobalSignal", "Motion", "PolyOrt", "Bandpass", "Censor">>

\* C11: the identity string is that of the selection's content alone and its
\* tokens always appear in the fixed type order GreyMatter, WhiteMatter,
\* CerebrospinalFluid, tCompCor, aCompCor, GlobalSignal, Motion, PolyOrt,
\* Bandpass, Censor: the string is the one built by visiting the types in
\* that order, whatever the order in which the dictionary of codes yields them.
C11_FixedTypeOrder ==
    (ident.done /\ ident.ra.err = "none") =>
        ident.ra.s = Repr(ident.a, TypeOrder).s

\* t holds the elements of s, as many times each, in some order.
IsPermutation(s, t) ==
    /\ Len(s) = Len(t)
    /\ \E f \in [1..Len(s) -> 1..Len(s)] :
          /\ \A i, j \in 1..Len(s) : f[i] = f[j] => i = j
          /\ \A i \in 1..Len(s) : t[i] = s[f[i]]

\* C12: thresholds are emitted in descending order of type name, so two
\* selections whose Censor thresholds lists are permutations of each other get
\* the same identity string, also when a list holds several thresholds of one
\* type.
C12_ThresholdOrderIrrelevant ==
    (/\ ident.done /\ DifferOnlyIn("Censor")
     /\ SameBut(ident.a["Censor"], ident.b["Censor"], {"thresholds"})
     /\ IsPermutation(ident.a["Censor"]["thresholds"], ident.b["Censor"]["thresholds"])) =>
        /\ ident.ra.err = "none" /\ ident.rb.err = "none"
        /\ ident.ra.s = ident.rb.s

\* Selection b is selection a with more keys, none of them a regressor type.
AddsOtherKeys(a, b) ==
    /\ DOMAIN a \subseteq DOMAIN b /\ DOMAIN a # DOMAIN b
    /\ (DOMAIN b \ DOMAIN a) \cap DOMAIN regs = {}
    /\ \A k \in DOMAIN a : b[k] = a[k]

\* C22: a key outside the closed set of types is skipped: a selection with any
\* number of such keys added raises no error the selection without them does
\* not raise, and gets exactly its string.
C22_OtherKeysSkipped ==
    (ident.done /\ AddsOtherKeys(ident.a, ident.b)) =>
        /\ ident.rb.err = ident.ra.err
        /\ ident.rb.s = ident.ra.s

\* Two keys outside the closed set were added to a selection of two types.
C22_Witness ==
    /\ ident.done /\ AddsOtherKeys(ident.a, ident.b)
    /\ Cardinality(DOMAIN ident.b \ DOMAIN ident.a) = 2
    /\ Cardinality(DOMAIN ident.a \cap DOMAIN regs) = 2
    /\ ident.rb.err = "none" /\ ident.rb.s # <<>>

=============================================================================
